---- MODULE Spec2Model ----
(***************************************************************************)
(* Model of the globe landing page: the HomepageAnimation component (card  *)
(* sequence, marker clicks, per-frame rotation, marker projection), the    *)
(* GlobeWithPins page with its World renderer wrapper, and GlobeDemo.      *)
(*                                                                         *)
(* Numbers.  JavaScript numbers are modelled as records [k, v]: k is the   *)
(* kind ("fin", "nan", "pinf", "ninf", or "null" for the value null) and v *)
(* is the value of a finite number in fixed point.  Angles in radians and  *)
(* unit-sphere coordinates carry Scale units per 1.0; degrees carry        *)
(* DegScale units per degree; pixels carry PxScale units per pixel.        *)
(***************************************************************************)
EXTENDS Integers, Sequences, FiniteSets, TLC

VARIABLES
  comp,            \* which component the page mounts
  phase,           \* "init" (rendered, effects not run), "mounted", "unmounted"
  lastAct,         \* name of the last operation that ran
  now,             \* milliseconds since mount
  live,            \* renderer instances created and not destroyed
  created,         \* number of renderer instances created so far
  peak,            \* largest number of instances live at one moment
  glSize,          \* pixel width handed to the live renderer
  size,            \* HomepageAnimation: size state {w, h}
  activeIndex,     \* HomepageAnimation: activeIndex state (Null or an index)
  running,         \* HomepageAnimation: running state
  loopsDone,       \* HomepageAnimation: loopsDone state
  targetPhi,       \* HomepageAnimation: targetPhi.current
  phi,             \* the live renderer's closure variable phi
  globeRef,        \* HomepageAnimation: globeRef.current
  pc,              \* position of the async function run()
  idx,             \* run(): idx
  localLoop,       \* run(): localLoop
  mounted,         \* sequence effect: mounted
  capturedRunning, \* sequence effect: the value of running its closure holds
  timer,           \* sequence effect: timer
  dom,             \* HomepageAnimation: markers as last rendered
  card,            \* HomepageAnimation: active card as last rendered
  clicked,         \* a marker has been clicked
  clickedIdx,      \* index of the marker clicked last
  frames,          \* frames rendered so far
  activePin,       \* GlobeWithPins: activePin state (Null or a pin index)
  globeStateRef,   \* GlobeWithPins: globeStateRef.current
  gwpDom,          \* GlobeWithPins: markers as last rendered
  gwpCard,         \* GlobeWithPins: popup card as last rendered
  dataKey,         \* World / GlobeDemo: identity of the data the effect saw
  probe            \* result of the last projection applied on its own

vars == <<comp, phase, lastAct, now, live, created, peak, glSize, size,
          activeIndex, running, loopsDone, targetPhi, phi, globeRef, pc, idx,
          localLoop, mounted, capturedRunning, timer, dom, card, clicked,
          clickedIdx, frames, activePin, globeStateRef, gwpDom, gwpCard,
          dataKey, probe>>

seqVars  == <<pc, idx, localLoop, mounted, capturedRunning, timer>>
homeVars == <<size, activeIndex, running, loopsDone, targetPhi, globeRef,
              dom, card, clicked, clickedIdx>>
gwpVars  == <<activePin, globeStateRef, gwpDom, gwpCard>>
glVars   == <<live, created, peak, glSize>>

----------------------------------------------------------------------------
(* Bounds of the model *)

MaxTime      == 5600   \* the clock stops here (ms)
MaxFrames    == 1      \* frame steps taken in the component specification
FrameBurst   == 60     \* frames rendered in one long frame step
MaxRotFrames == 220    \* frames rendered in the rotation specification
MaxGlobes    == 3      \* renderer instances created per run
Epsilon      == 10     \* distance to the target taken as "arrived" (1/Scale rad)
ProbeStep    == 400    \* spacing of the rotations the projection is tried at

----------------------------------------------------------------------------
(* Fixed-point arithmetic *)

Scale   == 10^4
DegScale == 10^2
PxScale == 10^2

PI     == 31416
TwoPi  == 2 * PI
HalfPi == PI \div 2

Null == -1

Abs(a) == IF a < 0 THEN -a ELSE a
Min(a, b) == IF a < b THEN a ELSE b
Max(a, b) == IF a > b THEN a ELSE b

\* a / b rounded to the nearest integer, halves up (b > 0); Math.round
\* rounds the same way
RoundDiv(a, b) == (2 * a + b) \div (2 * b)

Mul(a, b) == RoundDiv(a * b, Scale)

\* sine on [0, pi/2] by its Taylor polynomial up to x^9
SinQ(x) ==
  LET x2 == Mul(x, x)
      t4 == Scale - x2 \div 72
      t3 == Scale - Mul(x2, t4) \div 42
      t2 == Scale - Mul(x2, t3) \div 20
      t1 == Scale - Mul(x2, t2) \div 6
  IN  Mul(x, t1)

\* sine over one period, tabulated
SinPeriod ==
  [y \in 0 .. TwoPi - 1 |->
     IF y <= HalfPi THEN SinQ(y)
     ELSE IF y <= PI THEN SinQ(PI - y)
     ELSE IF y <= PI + HalfPi THEN -SinQ(y - PI)
     ELSE -SinQ(TwoPi - y)]

Sin(x) == SinPeriod[x % TwoPi]

Cos(x) == SinPeriod[(x + HalfPi) % TwoPi]

\* degrees (DegScale units) to radians (Scale units): deg * Math.PI / 180
DegToRad(deg) == RoundDiv(deg * (PI \div 8), (180 * DegScale) \div 8)

\* radians (Scale units) to degrees (DegScale units): rad * 180 / Math.PI
RadToDeg(rad) == RoundDiv(rad * ((180 * DegScale) \div 8), PI \div 8)

----------------------------------------------------------------------------
(* JavaScript numbers *)

Fin(n)  == [k |-> "fin", v |-> n]
NaN     == [k |-> "nan", v |-> 0]
PosInf  == [k |-> "pinf", v |-> 0]
NegInf  == [k |-> "ninf", v |-> 0]
JSNull  == [k |-> "null", v |-> 0]

IsFinite(a) == a.k = "fin"
TypeofNumber(a) == a.k \in {"fin", "nan", "pinf", "ninf"}

FNeg(a) ==
  CASE a.k = "fin"  -> Fin(-a.v)
    [] a.k = "pinf" -> NegInf
    [] a.k = "ninf" -> PosInf
    [] OTHER        -> NaN

FAdd(a, b) ==
  CASE a.k = "nan" \/ b.k = "nan"       -> NaN
    [] a.k = "fin" /\ b.k = "fin"       -> Fin(a.v + b.v)
    [] a.k = "fin"                      -> b
    [] b.k = "fin"                      -> a
    [] a.k = b.k                        -> a
    [] OTHER                            -> NaN

FSub(a, b) == FAdd(a, FNeg(b))

\* a * (num / den) for a positive constant num / den
FScale(a, num, den) ==
  IF a.k = "fin" THEN Fin(RoundDiv(a.v * num, den)) ELSE a

----------------------------------------------------------------------------
(* HomepageAnimation: data and pure functions *)

\* players[i].mapCoord, as [lat, lng] in degrees
players == <<[id |-> 1, lat |-> 36 * DegScale, lng |-> 3 * DegScale],
             [id |-> 2, lat |-> 14 * DegScale, lng |-> -17 * DegScale],
             [id |-> 3, lat |-> 47 * DegScale, lng |-> -2 * DegScale]>>

NPlayers == Len(players)
Indexes  == 0 .. NPlayers - 1
player(i) == players[i + 1]

SHOW_MS == 1400
FADE_MS == 300
LOOPS   == 1

\* useState({ w: 920, h: 460 })
InitialSize == [w |-> 920, h |-> 460]

\* let phi = Math.PI * 0.45
PhiInit == RoundDiv(PI * 45, 100)

\* phi += 0.0006
IdleStep == RoundDiv(6 * Scale, 10000)

\* zr > 0.02
VisibleThreshold == RoundDiv(2 * Scale, 100)

\* players.findIndex((pl) => pl.id === id)
findIndex(id) ==
  IF \E i \in Indexes : player(i).id = id
  THEN CHOOSE i \in Indexes :
         player(i).id = id /\ \A j \in Indexes : player(j).id = id => i <= j
  ELSE -1

\* lonToPhi(lon): -((lon * Math.PI) / 180), lon a JavaScript number in degrees
lonToPhi(lon) ==
  IF lon.k = "fin" THEN Fin(-DegToRad(lon.v)) ELSE FNeg(lon)

\* onRender with an interpolation strength above 1
onRender_Overshoot(t, p) ==
  IF TypeofNumber(t)
  THEN FAdd(p, FScale(FSub(t, p), 106, 100))
  ELSE FAdd(p, Fin(IdleStep))

\* the body of onRender: the next value of the closure variable phi
onRender(t, p) ==
  IF TypeofNumber(t)
  THEN FAdd(p, FScale(FSub(t, p), 6, 100))
  ELSE FAdd(p, Fin(IdleStep))

\* n consecutive frames with the same target
RECURSIVE onRenderN(_, _, _)
onRenderN(t, p, n) ==
  IF n = 0 THEN p
  ELSE CHOOSE r \in {onRenderN(t, q, n - 1) : q \in {onRender(t, p)}} : TRUE

\* onResize: the width it passes to setSize for a window of innerWidth iw
onResizeWidth(iw) ==
  LET maxW == Min(iw - 64, 1200)
  IN  Max(560, Min(980, RoundDiv(maxW * 65, 100)))

OffScreen == [x |-> -9999 * PxScale, y |-> -9999 * PxScale, visible |-> FALSE]

\* HomepageAnimation latLngToScreen; gref is globeRef.current, wref tells
\* whether wrapperRef.current is set, sz is the size state
latLngToScreen(gref, wref, sz, lat, lng) ==
  IF ~gref.set \/ ~wref THEN OffScreen
  ELSE
    LET lambda == DegToRad(lng)
        phiLat == DegToRad(lat)
        x == Mul(Cos(phiLat), Cos(lambda))
        y == Sin(phiLat)
        z == Mul(Cos(phiLat), Sin(lambda))
        rot == gref.phi.v
        xr == Mul(x, Cos(rot)) + Mul(z, Sin(rot))
        zr == Mul(z, Cos(rot)) - Mul(x, Sin(rot))
        R == (Min(sz.w, sz.h) * PxScale) \div 2
        scale == RoundDiv(R * 95, 100)
        sx == (sz.w * PxScale) \div 2 + RoundDiv(xr * scale, Scale)
        sy == (sz.h * PxScale) \div 2 - RoundDiv(y * scale, Scale)
    IN  [x |-> sx, y |-> sy, visible |-> zr > VisibleThreshold]

\* PinFrom that leaves every marker interactive and opaque
PinFrom_AlwaysInteractive(pos, sz) ==
  [left |-> pos.x, top |-> pos.y - (sz.h * PxScale) \div 2,
   projected |-> pos.visible, pointerEvents |-> "auto", opacity |-> 100]

\* one marker, from its projection pos and the size state
PinFrom(pos, sz) ==
  LET adjustedY == pos.y - (sz.h * PxScale) \div 2
      visible == pos.visible /\ adjustedY >= 0
                   /\ adjustedY <= (sz.h * PxScale) \div 2
  IN  [left |-> pos.x, top |-> adjustedY, projected |-> pos.visible,
       pointerEvents |-> IF visible THEN "auto" ELSE "none",
       opacity |-> IF visible THEN 100 ELSE 15]

PinOf(gref, wref, sz, i) ==
  PinFrom(latLngToScreen(gref, wref, sz, player(i).lat, player(i).lng), sz)

\* the markers the render function produces: players.map(...)
RenderPins(gref, wref, sz) == [i \in Indexes |-> PinOf(gref, wref, sz, i)]

NoGlobeRef == [set |-> FALSE, phi |-> Fin(0)]

\* no card is rendered: activeIndex === null, activePin === null
NoCard == [shown |-> FALSE, left |-> 0, top |-> 0, markerVisible |-> FALSE,
           markerX |-> 0]

\* the active player card, from its marker's projection pos and the size state
CardFrom(pos, sz) ==
  LET adjustedY == pos.y - (sz.h * PxScale) \div 2
      visible == pos.visible /\ adjustedY >= 0
                   /\ adjustedY <= (sz.h * PxScale) \div 2
  IN  [shown |-> TRUE,
       left |-> Max(60 * PxScale, Min((sz.w - 60) * PxScale, pos.x)),
       top |-> IF visible THEN Max(36 * PxScale, adjustedY - 72 * PxScale)
               ELSE 36 * PxScale,
       markerVisible |-> visible, markerX |-> pos.x]

\* the card the render function produces: activeIndex !== null && (...)
RenderCard(ai, gref, wref, sz) ==
  IF ai = Null THEN NoCard
  ELSE CardFrom(latLngToScreen(gref, wref, sz, player(ai).lat,
                               player(ai).lng), sz)
NoTimer    == [set |-> FALSE, armed |-> FALSE, due |-> 0]

----------------------------------------------------------------------------
(* Renderer instances (createGlobe / destroy) *)

Gl == [live |-> live, created |-> created, peak |-> peak]

\* createGlobe(canvas, config): a new instance becomes live
GlCreate(g) ==
  LET id == g.created + 1
      l  == g.live \cup {id}
  IN  [live |-> l, created |-> id, peak |-> Max(g.peak, Cardinality(l))]

\* globe.destroy() on the instance the effect created (the latest one)
GlDestroy(g) == [g EXCEPT !.live = @ \ {g.created}]

\* GlRecreate with the effect body before the cleanup
GlRecreate_CreateFirst(g) == GlDestroy(GlCreate(g))

\* an effect that depends on changed values runs again: the cleanup of the
\* previous run, then the effect body
GlRecreate(g) == GlCreate(GlDestroy(g))

SetGl(g) == /\ live' = g.live
            /\ created' = g.created
            /\ peak' = g.peak

----------------------------------------------------------------------------
(* Inputs of the page *)

Components == {"HomepageAnimation", "GlobeWithPins", "World", "GlobeDemo"}

\* the clock is sampled at the timers' deadlines and once in between
TickMs == SHOW_MS \div 2

\* number of frames the renderer draws between two events of the page; the
\* frame-by-frame behaviour of onRender is the subject of SpecRot
FrameCounts == {FrameBurst}

\* window.innerWidth values the page is shown at
WindowWidths == {600, 1400}

----------------------------------------------------------------------------
(* HomepageAnimation: operations *)

IsHome == comp = "HomepageAnimation"

\* a timer callback has resolved its promise and the continuation of run()
\* is queued as a microtask: it runs before any other task
ContinuationQueued == pc \in {"show_fired", "fade_fired"}

\* the render function runs again when a state setter changed the state
Rerender(changed, gref, sz) ==
  IF changed THEN RenderPins(gref, TRUE, sz) ELSE dom

RerenderCard(changed, ai, gref, sz) ==
  IF changed THEN RenderCard(ai, gref, TRUE, sz) ELSE card

\* the top of the loop of run(): while (mounted && running) { ... await show }
LoopTop(i) ==
  IF mounted' /\ capturedRunning'
  THEN /\ targetPhi' = lonToPhi(Fin(player(i).lng))
       /\ activeIndex' = i
       /\ timer' = [set |-> TRUE, armed |-> TRUE, due |-> now + SHOW_MS]
       /\ pc' = "await_show"
  ELSE /\ pc' = "done"
       /\ UNCHANGED <<targetPhi, activeIndex, timer>>

\* mount: the three effects in order (resize, create globe, run sequence),
\* then the render caused by onResize's setSize, which runs the globe effect
\* again because size changed
HomeMount(iw) ==
  /\ IsHome /\ phase = "init"
  /\ LET w == onResizeWidth(iw)
         g1 == GlCreate(Gl)
         g2 == IF w # size.w \/ w # size.h THEN GlRecreate(g1) ELSE g1
     IN  /\ size' = [w |-> w, h |-> w]
         /\ SetGl(g2)
         /\ glSize' = 2 * w
  /\ phi' = Fin(PhiInit)
  /\ mounted' = TRUE
  /\ capturedRunning' = running
  /\ idx' = 0
  /\ localLoop' = 0
  /\ LoopTop(0)
  /\ dom' = RenderPins(globeRef, TRUE, size')
  /\ card' = RenderCard(activeIndex', globeRef, TRUE, size')
  /\ phase' = "mounted"
  /\ lastAct' = "Mount"
  /\ UNCHANGED <<comp, now, running, loopsDone, globeRef, clicked, clickedIdx,
                 frames, gwpVars, dataKey, probe>>

\* the window resize listener: onResize, then the globe effect if size changed
HomeResize(iw) ==
  /\ IsHome /\ phase = "mounted" /\ ~ContinuationQueued
  /\ LET w == onResizeWidth(iw)
         again == w # size.w \/ w # size.h
     IN  /\ again => created < MaxGlobes
         /\ size' = [w |-> w, h |-> w]
         /\ SetGl(IF again THEN GlRecreate(Gl) ELSE Gl)
         /\ glSize' = IF again THEN 2 * w ELSE glSize
         /\ phi' = IF again THEN Fin(PhiInit) ELSE phi
  /\ dom' = RenderPins(globeRef, TRUE, size')
  /\ card' = RenderCard(activeIndex, globeRef, TRUE, size')
  /\ lastAct' = "Resize"
  /\ UNCHANGED <<comp, phase, now, activeIndex, running, loopsDone, targetPhi,
                 globeRef, seqVars, clicked, clickedIdx, frames, gwpVars,
                 dataKey, probe>>

\* n rendered frames: the renderer calls onRender for each
HomeFrame(n) ==
  /\ IsHome /\ phase = "mounted" /\ ~ContinuationQueued
  /\ live # {}
  /\ frames < MaxFrames
  /\ phi' = onRenderN(targetPhi, phi, n)
  /\ globeRef' = [set |-> TRUE, phi |-> phi']
  /\ frames' = frames + 1
  /\ lastAct' = "Frame"
  /\ UNCHANGED <<comp, phase, now, glVars, size, activeIndex, running,
                 loopsDone, targetPhi, seqVars, dom, card, clicked,
                 clickedIdx,
                 gwpVars, dataKey, probe>>

\* time passes, up to the next timer that is due
Tick ==
  /\ IsHome /\ phase = "mounted" /\ ~ContinuationQueued
  /\ now < MaxTime
  /\ ~(timer.armed /\ timer.due <= now)
  /\ now' = IF timer.armed THEN Min(now + TickMs, timer.due)
            ELSE Min(now + TickMs, MaxTime)
  /\ lastAct' = "Tick"
  /\ UNCHANGED <<comp, phase, glVars, homeVars, phi, seqVars, frames, gwpVars,
                 dataKey, probe>>

\* setTimeout's callback: res() resolves the promise run() awaits
TimerFire ==
  /\ IsHome
  /\ timer.armed /\ timer.due <= now
  /\ pc \in {"await_show", "await_fade"}
  /\ timer' = [timer EXCEPT !.armed = FALSE]
  /\ pc' = IF pc = "await_show" THEN "show_fired" ELSE "fade_fired"
  /\ lastAct' = "TimerFire"
  /\ UNCHANGED <<comp, phase, now, glVars, homeVars, phi, idx, localLoop,
                 mounted, capturedRunning, frames, gwpVars, dataKey, probe>>

\* ResumeShow without the test of mounted after the await
ResumeShow_NoMountedTest ==
  /\ IsHome /\ pc = "show_fired"
  /\ activeIndex' = Null
  /\ timer' = [set |-> TRUE, armed |-> TRUE, due |-> now + FADE_MS]
  /\ pc' = "await_fade"
  /\ dom' = Rerender(phase = "mounted" /\ activeIndex # Null, globeRef, size)
  /\ card' = RerenderCard(
       phase = "mounted" /\ activeIndex # Null,
       activeIndex', globeRef, size)
  /\ lastAct' = "ResumeShow"
  /\ UNCHANGED <<comp, phase, now, glVars, size, running, loopsDone,
                 targetPhi, phi, globeRef, idx, localLoop, mounted,
                 capturedRunning, clicked, clickedIdx, frames, gwpVars,
                 dataKey, probe>>

\* run() after the first await: if (!mounted) break; hide the card; await fade
ResumeShow ==
  /\ IsHome /\ pc = "show_fired"
  /\ IF ~mounted
     THEN /\ pc' = "done"
          /\ UNCHANGED <<activeIndex, timer, dom, card>>
     ELSE /\ activeIndex' = Null
          /\ timer' = [set |-> TRUE, armed |-> TRUE, due |-> now + FADE_MS]
          /\ pc' = "await_fade"
          /\ dom' = Rerender(phase = "mounted" /\ activeIndex # Null,
                             globeRef, size)
          /\ card' = RerenderCard(
               phase = "mounted" /\ activeIndex # Null,
               activeIndex', globeRef, size)
  /\ lastAct' = "ResumeShow"
  /\ UNCHANGED <<comp, phase, now, glVars, size, running, loopsDone,
                 targetPhi, phi, globeRef, idx, localLoop, mounted,
                 capturedRunning, clicked, clickedIdx, frames, gwpVars,
                 dataKey, probe>>

\* ResumeFade that never takes the loop-limit branch
ResumeFade_NoLimit ==
  /\ IsHome /\ pc = "fade_fired"
  /\ UNCHANGED <<mounted, capturedRunning>>
  /\ IF ~mounted
     THEN /\ pc' = "done"
          /\ UNCHANGED <<idx, localLoop, loopsDone, running, targetPhi,
                         activeIndex, timer, dom, card>>
     ELSE LET next == (idx + 1) % NPlayers
              wrapped == next = 0
              loops == IF wrapped THEN localLoop + 1 ELSE localLoop
          IN  /\ idx' = next
              /\ localLoop' = loops
              /\ loopsDone' = IF wrapped THEN loops ELSE loopsDone
              /\ running' = running
              /\ LoopTop(next)
              /\ dom' = Rerender(phase = "mounted"
                                   /\ <<activeIndex', loopsDone'>>
                                        # <<activeIndex, loopsDone>>,
                                 globeRef, size)
              /\ card' = RerenderCard(
                   phase = "mounted" /\ <<activeIndex', loopsDone'>>
                     # <<activeIndex, loopsDone>>,
                   activeIndex', globeRef, size)
  /\ lastAct' = "ResumeFade"
  /\ UNCHANGED <<comp, phase, now, glVars, size, phi, globeRef, clicked,
                 clickedIdx, frames, gwpVars, dataKey, probe>>

\* run() after the second await: if (!mounted) break; advance idx; stop at
\* the loop limit, otherwise go round the loop again
ResumeFade ==
  /\ IsHome /\ pc = "fade_fired"
  /\ UNCHANGED <<mounted, capturedRunning>>
  /\ IF ~mounted
     THEN /\ pc' = "done"
          /\ UNCHANGED <<idx, localLoop, loopsDone, running, targetPhi,
                         activeIndex, timer, dom, card>>
     ELSE LET next == (idx + 1) % NPlayers
              wrapped == next = 0
              loops == IF wrapped THEN localLoop + 1 ELSE localLoop
          IN  /\ idx' = next
              /\ localLoop' = loops
              /\ loopsDone' = IF wrapped THEN loops ELSE loopsDone
              /\ IF wrapped /\ loops >= LOOPS
                 THEN /\ running' = FALSE
                      /\ targetPhi' = JSNull
                      /\ pc' = "done"
                      /\ UNCHANGED <<activeIndex, timer>>
                 ELSE /\ running' = running
                      /\ LoopTop(next)
              /\ dom' = Rerender(phase = "mounted"
                                   /\ <<activeIndex', running', loopsDone'>>
                                        # <<activeIndex, running, loopsDone>>,
                                 globeRef, size)
              /\ card' = RerenderCard(
                   phase = "mounted" /\ <<activeIndex', running', loopsDone'>>
                     # <<activeIndex, running, loopsDone>>,
                   activeIndex', globeRef, size)
  /\ lastAct' = "ResumeFade"
  /\ UNCHANGED <<comp, phase, now, glVars, size, phi, globeRef, clicked,
                 clickedIdx, frames, gwpVars, dataKey, probe>>

\* HomeClick that leaves the running flag alone
HomeClick_KeepsRunning(i) ==
  /\ IsHome /\ phase = "mounted" /\ ~ContinuationQueued
  /\ activeIndex' = findIndex(player(i).id)
  /\ targetPhi' = lonToPhi(Fin(player(i).lng))
  /\ running' = running
  /\ clicked' = TRUE
  /\ clickedIdx' = i
  /\ dom' = Rerender(activeIndex' # activeIndex, globeRef, size)
  /\ card' = RerenderCard(
       activeIndex' # activeIndex,
       activeIndex', globeRef, size)
  /\ lastAct' = "Click"
  /\ UNCHANGED <<comp, phase, now, glVars, size, loopsDone, phi, globeRef,
                 seqVars, frames, gwpVars, dataKey, probe>>

\* the marker button's onClick for players[i]
HomeClick(i) ==
  /\ IsHome /\ phase = "mounted" /\ ~ContinuationQueued
  /\ activeIndex' = findIndex(player(i).id)
  /\ targetPhi' = lonToPhi(Fin(player(i).lng))
  /\ running' = FALSE
  /\ clicked' = TRUE
  /\ clickedIdx' = i
  /\ dom' = Rerender(<<activeIndex', running'>> # <<activeIndex, running>>,
                     globeRef, size)
  /\ card' = RerenderCard(
       <<activeIndex', running'>> # <<activeIndex, running>>,
       activeIndex', globeRef, size)
  /\ lastAct' = "Click"
  /\ UNCHANGED <<comp, phase, now, glVars, size, loopsDone, phi, globeRef,
                 seqVars, frames, gwpVars, dataKey, probe>>

\* the card's onClick: setActiveIndex(null)
HomeDismiss ==
  /\ IsHome /\ phase = "mounted" /\ ~ContinuationQueued
  /\ activeIndex # Null
  /\ activeIndex' = Null
  /\ dom' = RenderPins(globeRef, TRUE, size)
  /\ card' = RenderCard(activeIndex', globeRef, TRUE, size)
  /\ lastAct' = "Dismiss"
  /\ UNCHANGED <<comp, phase, now, glVars, size, running, loopsDone,
                 targetPhi, phi, globeRef, seqVars, clicked, clickedIdx,
                 frames, gwpVars, dataKey, probe>>

\* unmount: the cleanups of the three effects
HomeUnmount ==
  /\ IsHome /\ phase = "mounted"
  /\ SetGl(GlDestroy(Gl))
  /\ mounted' = FALSE
  /\ timer' = IF timer.set THEN [timer EXCEPT !.armed = FALSE] ELSE timer
  /\ phase' = "unmounted"
  /\ lastAct' = "Unmount"
  /\ UNCHANGED <<comp, now, glSize, homeVars, phi, pc, idx, localLoop,
                 capturedRunning, frames, gwpVars, dataKey, probe>>

HomeNext ==
  \/ \E iw \in WindowWidths : HomeMount(iw)
  \/ \E iw \in WindowWidths : HomeResize(iw)
  \/ \E n \in FrameCounts : HomeFrame(n)
  \/ Tick
  \/ TimerFire
  \/ ResumeShow
  \/ ResumeFade
  \/ \E i \in Indexes : HomeClick(i)
  \/ HomeDismiss
  \/ HomeUnmount

----------------------------------------------------------------------------
(* World: the renderer wrapper, on its own or inside GlobeWithPins *)

UsesWorld == comp \in {"World", "GlobeWithPins"}

homeAll == <<now, homeVars, seqVars>>

\* globeConfig.initialPhi ?? -0.6 (GlobeWithPins passes -0.6 as well)
WorldInitialPhi == -RoundDiv(6 * Scale, 10)

\* globeConfig.autoRotateSpeed ?? 0.0008; GlobeWithPins passes 0.0012
WorldSpeed ==
  IF comp = "GlobeWithPins" THEN RoundDiv(12 * Scale, 10000)
  ELSE RoundDiv(8 * Scale, 10000)

\* canvas.offsetWidth values; inside GlobeWithPins the wrapper is 680 wide
CanvasWidths == IF comp = "GlobeWithPins" THEN {680} ELSE {400, 680}

\* identities of JSON.stringify(data) a host may pass
DataKeys == {0, 1}

\* onRender of World: phi += speed
worldOnRender(p) == FAdd(p, Fin(WorldSpeed))

RECURSIVE worldOnRenderN(_, _)
worldOnRenderN(p, n) ==
  IF n = 0 THEN p
  ELSE CHOOSE r \in {worldOnRenderN(q, n - 1) : q \in {worldOnRender(p)}} : TRUE

----------------------------------------------------------------------------
(* GlobeWithPins: data and pure functions *)

\* PINS[i] lat, lng in degrees, to 1 / DegScale of a degree
PINS == <<[id |-> 1, lat |-> 2861, lng |-> 7721],
          [id |-> 2, lat |-> 5151, lng |-> -13],
          [id |-> 3, lat |-> 4071, lng |-> -7401]>>

PinIndexes == 0 .. Len(PINS) - 1
pin(i) == PINS[i + 1]

\* the wrapper element as laid out: w-[680px] h-[680px], at some place of
\* the page; wrapperRef.current is null during the first render
WrapperLayout == [set |-> TRUE, offsetWidth |-> 680, offsetHeight |-> 680,
                  offsetLeft |-> 260, rectLeft |-> 260, rectTop |-> 180,
                  scrollY |-> 0]
NoWrapper == [set |-> FALSE, offsetWidth |-> 0, offsetHeight |-> 0,
              offsetLeft |-> 0, rectLeft |-> 0, rectTop |-> 0, scrollY |-> 0]

\* GlobeWithPins latLngToScreen; gsr is globeStateRef.current, wr the wrapper
gwpLatLngToScreen(gsr, wr, lat, lng) ==
  IF ~gsr.set \/ ~wr.set THEN OffScreen
  ELSE
    LET R == (wr.offsetWidth * PxScale) \div 2
        lambda == DegToRad(lng)
        phiLat == DegToRad(lat)
        x == Mul(Cos(phiLat), Cos(lambda))
        y == Sin(phiLat)
        z == Mul(Cos(phiLat), Sin(lambda))
        rot == gsr.phi.v
        xr == Mul(x, Cos(rot)) + Mul(z, Sin(rot))
        zr == Mul(z, Cos(rot)) - Mul(x, Sin(rot))
        scale == RoundDiv(R * 95, 100)
        sx == wr.offsetLeft * PxScale + R + RoundDiv(xr * scale, Scale)
                - wr.rectLeft * PxScale
        sy == wr.rectTop * PxScale + R - RoundDiv(y * scale, Scale)
                - wr.scrollY * PxScale
    IN  [x |-> sx - wr.rectLeft * PxScale, y |-> sy - wr.rectTop * PxScale,
         visible |-> zr > VisibleThreshold]

\* one pin overlay of GlobeWithPins as the render function produces it
GwpPinFrom(pos, wr) ==
  LET visible == /\ pos.visible
                 /\ wr.set
                 /\ pos.x >= 0 /\ pos.x <= wr.offsetWidth * PxScale
                 /\ pos.y >= 0 /\ pos.y <= wr.offsetHeight * PxScale
  IN  [left |-> pos.x, top |-> pos.y, projected |-> pos.visible,
       pointerEvents |-> IF visible THEN "auto" ELSE "none",
       opacity |-> IF visible THEN 100 ELSE 16]

\* the popup card, from the active pin's projection pos and the wrapper
GwpCardFrom(pos, wr) ==
  LET width == IF wr.set THEN wr.offsetWidth ELSE 680
      left == Max(48 * PxScale, Min((width - 48) * PxScale, pos.x))
      top == pos.y - 110 * PxScale
      visible == pos.visible /\ top > 0
  IN  [shown |-> TRUE,
       left |-> IF visible THEN left ELSE (width * PxScale) \div 2,
       top |-> IF visible THEN Max(24 * PxScale, top) ELSE 28 * PxScale,
       markerVisible |-> visible, markerX |-> pos.x]

\* the popup the render function produces: activePin && (...)
GwpRenderCard(ap, gsr, wr) ==
  IF ap = Null THEN NoCard
  ELSE GwpCardFrom(gwpLatLngToScreen(gsr, wr, pin(ap).lat, pin(ap).lng), wr)

\* PINS.map(...) of the render function
GwpRenderPins(gsr, wr) ==
  [i \in PinIndexes |->
     GwpPinFrom(gwpLatLngToScreen(gsr, wr, pin(i).lat, pin(i).lng), wr)]

----------------------------------------------------------------------------
(* World and GlobeWithPins: operations *)

\* mount: World's effect creates the renderer and adds the resize listener;
\* nothing calls onReady, so globeStateRef.current stays null
WorldMount(cw, d) ==
  /\ UsesWorld /\ phase = "init"
  /\ comp = "GlobeWithPins" => d = 0
  /\ SetGl(GlCreate(Gl))
  /\ glSize' = 2 * cw
  /\ phi' = Fin(WorldInitialPhi)
  /\ dataKey' = d
  /\ gwpDom' = IF comp = "GlobeWithPins"
               THEN GwpRenderPins(globeStateRef, NoWrapper) ELSE gwpDom
  /\ gwpCard' = gwpCard
  /\ phase' = "mounted"
  /\ lastAct' = "WorldMount"
  /\ UNCHANGED <<comp, homeAll, frames, activePin, globeStateRef, probe>>

\* n rendered frames of World's renderer
WorldFrame(n) ==
  /\ UsesWorld /\ phase = "mounted" /\ live # {}
  /\ frames < MaxFrames
  /\ phi' = worldOnRenderN(phi, n)
  /\ frames' = frames + 1
  /\ lastAct' = "WorldFrame"
  /\ UNCHANGED <<comp, phase, glVars, homeAll, gwpVars, dataKey, probe>>

\* World's resize listener: globe.resize(...)
WorldResize(cw) ==
  /\ UsesWorld /\ phase = "mounted"
  /\ glSize' = 2 * cw
  /\ lastAct' = "WorldResize"
  /\ UNCHANGED <<comp, phase, live, created, peak, homeAll, phi, frames,
                 gwpVars, dataKey, probe>>

\* the host renders World again with data d: the effect runs again when
\* JSON.stringify(data) differs (cleanup first, then the body)
WorldDataChange(cw, d) ==
  /\ comp = "World" /\ phase = "mounted"
  /\ d # dataKey => created < MaxGlobes
  /\ SetGl(IF d # dataKey THEN GlRecreate(Gl) ELSE Gl)
  /\ glSize' = IF d # dataKey THEN 2 * cw ELSE glSize
  /\ phi' = IF d # dataKey THEN Fin(WorldInitialPhi) ELSE phi
  /\ dataKey' = d
  /\ lastAct' = "WorldDataChange"
  /\ UNCHANGED <<comp, phase, homeAll, frames, gwpVars, probe>>

\* unmount: World's cleanup removes the listener and destroys the renderer
WorldUnmount ==
  /\ UsesWorld /\ phase = "mounted"
  /\ SetGl(GlDestroy(Gl))
  /\ phase' = "unmounted"
  /\ lastAct' = "WorldUnmount"
  /\ UNCHANGED <<comp, glSize, homeAll, phi, frames, gwpVars, dataKey, probe>>

\* focusOnPin(PINS[i]): the target is stored only if World handed its state
focusOnPin(i) ==
  /\ comp = "GlobeWithPins" /\ phase = "mounted"
  /\ globeStateRef' = globeStateRef
  /\ activePin' = i
  /\ gwpDom' = GwpRenderPins(globeStateRef, WrapperLayout)
  /\ gwpCard' = GwpRenderCard(activePin', globeStateRef, WrapperLayout)
  /\ lastAct' = "focusOnPin"
  /\ UNCHANGED <<comp, phase, glVars, homeAll, phi, frames, dataKey, probe>>

\* the popup card's onClick: setActivePin(null)
GwpDismiss ==
  /\ comp = "GlobeWithPins" /\ phase = "mounted"
  /\ activePin # Null
  /\ activePin' = Null
  /\ gwpDom' = GwpRenderPins(globeStateRef, WrapperLayout)
  /\ gwpCard' = GwpRenderCard(activePin', globeStateRef, WrapperLayout)
  /\ lastAct' = "GwpDismiss"
  /\ UNCHANGED <<comp, phase, glVars, homeAll, phi, frames, globeStateRef,
                 dataKey, probe>>

WorldNext ==
  \/ \E cw \in CanvasWidths, d \in DataKeys : WorldMount(cw, d)
  \/ \E n \in FrameCounts : WorldFrame(n)
  \/ \E cw \in CanvasWidths : WorldResize(cw)
  \/ \E cw \in CanvasWidths, d \in DataKeys : WorldDataChange(cw, d)
  \/ WorldUnmount
  \/ \E i \in PinIndexes : focusOnPin(i)
  \/ GwpDismiss

----------------------------------------------------------------------------
(* GlobeDemo: operations *)

IsDemo == comp = "GlobeDemo"

\* phi += 0.001
DemoStep == RoundDiv(Scale, 1000)

\* onRender of GlobeDemo: state.phi = phi; phi += 0.001
demoOnRender(p) == FAdd(p, Fin(DemoStep))

RECURSIVE demoOnRenderN(_, _)
demoOnRenderN(p, n) ==
  IF n = 0 THEN p
  ELSE CHOOSE r \in {demoOnRenderN(q, n - 1) : q \in {demoOnRender(p)}} : TRUE

\* mount: the effect creates the renderer (800 * 2 pixels wide)
DemoMount(d) ==
  /\ IsDemo /\ phase = "init"
  /\ SetGl(GlCreate(Gl))
  /\ glSize' = 800 * 2
  /\ phi' = Fin(0)
  /\ dataKey' = d
  /\ phase' = "mounted"
  /\ lastAct' = "DemoMount"
  /\ UNCHANGED <<comp, homeAll, frames, gwpVars, probe>>

\* n rendered frames of GlobeDemo's renderer
DemoFrame(n) ==
  /\ IsDemo /\ phase = "mounted" /\ live # {}
  /\ frames < MaxFrames
  /\ phi' = demoOnRenderN(phi, n)
  /\ frames' = frames + 1
  /\ lastAct' = "DemoFrame"
  /\ UNCHANGED <<comp, phase, glVars, homeAll, gwpVars, dataKey, probe>>

\* the host renders GlobeDemo again with the array d as points: the effect
\* runs again when the array is another one (cleanup first, then the body)
DemoPointsChange(d) ==
  /\ IsDemo /\ phase = "mounted"
  /\ d # dataKey => created < MaxGlobes
  /\ SetGl(IF d # dataKey THEN GlRecreate(Gl) ELSE Gl)
  /\ phi' = IF d # dataKey THEN Fin(0) ELSE phi
  /\ dataKey' = d
  /\ lastAct' = "DemoPointsChange"
  /\ UNCHANGED <<comp, phase, glSize, homeAll, frames, gwpVars, probe>>

\* unmount: the cleanup destroys the renderer
DemoUnmount ==
  /\ IsDemo /\ phase = "mounted"
  /\ SetGl(GlDestroy(Gl))
  /\ phase' = "unmounted"
  /\ lastAct' = "DemoUnmount"
  /\ UNCHANGED <<comp, glSize, homeAll, phi, frames, gwpVars, dataKey, probe>>

DemoNext ==
  \/ \E d \in DataKeys : DemoMount(d)
  \/ \E n \in FrameCounts : DemoFrame(n)
  \/ \E d \in DataKeys : DemoPointsChange(d)
  \/ DemoUnmount

----------------------------------------------------------------------------
(* The page: the state before the effects of the first render have run,  *)
(* and every operation of the component it mounts                        *)

NoProbe == [op |-> "none", phi |-> 0, lat |-> 0, lng |-> 0,
            x |-> 0, y |-> 0, visible |-> FALSE]

InitCommon ==
  /\ phase = "init"
  /\ lastAct = "Init"
  /\ now = 0
  /\ live = {}
  /\ created = 0
  /\ peak = 0
  /\ glSize = 0
  /\ size = InitialSize
  /\ activeIndex = Null
  /\ running = TRUE
  /\ loopsDone = 0
  /\ targetPhi = JSNull
  /\ phi = Fin(0)
  /\ globeRef = NoGlobeRef
  /\ pc = "idle"
  /\ idx = 0
  /\ localLoop = 0
  /\ mounted = FALSE
  /\ capturedRunning = TRUE
  /\ timer = NoTimer
  /\ dom = RenderPins(NoGlobeRef, FALSE, InitialSize)
  /\ card = NoCard
  /\ clicked = FALSE
  /\ clickedIdx = Null
  /\ frames = 0
  /\ activePin = Null
  /\ globeStateRef = NoGlobeRef
  /\ gwpDom = GwpRenderPins(NoGlobeRef, NoWrapper)
  /\ gwpCard = NoCard
  /\ dataKey = 0
  /\ probe = NoProbe

Init == comp \in Components /\ InitCommon

Next == HomeNext \/ WorldNext \/ DemoNext

Spec == Init /\ [][Next]_vars

\* the page with nobody touching it: no click, no dismissal, no unmount
InitAuto == IsHome /\ InitCommon

NextAuto ==
  \/ \E iw \in WindowWidths : HomeMount(iw)
  \/ \E iw \in WindowWidths : HomeResize(iw)
  \/ \E n \in FrameCounts : HomeFrame(n)
  \/ Tick
  \/ TimerFire
  \/ ResumeShow
  \/ ResumeFade

SpecAuto == InitAuto /\ [][NextAuto]_vars

----------------------------------------------------------------------------
(* The per-frame update on its own: onRender applied frame after frame to  *)
(* a start angle and a target drawn from the values a target can take      *)

\* angles the rotation starts from
RotStarts == {PhiInit, 0, -TwoPi}

\* values of targetPhi.current: none, the players' targets, a target a turn
\* away, and what lonToPhi returns for a longitude that is not finite
RotTargets ==
  {JSNull, Fin(TwoPi)}
    \cup {lonToPhi(Fin(player(i).lng)) : i \in Indexes}
    \cup {lonToPhi(NaN), lonToPhi(PosInf), lonToPhi(NegInf)}

InitRot ==
  /\ comp = "HomepageAnimation"
  /\ phase = "mounted"
  /\ lastAct = "Init"
  /\ now = 0
  /\ live = {1}
  /\ created = 1
  /\ peak = 1
  /\ glSize = 2 * InitialSize.w
  /\ size = InitialSize
  /\ activeIndex = Null
  /\ running = FALSE
  /\ loopsDone = 0
  /\ targetPhi \in RotTargets
  /\ phi \in {Fin(p) : p \in RotStarts}
  /\ globeRef = NoGlobeRef
  /\ pc = "done"
  /\ idx = 0
  /\ localLoop = 0
  /\ mounted = TRUE
  /\ capturedRunning = TRUE
  /\ timer = NoTimer
  /\ dom = RenderPins(NoGlobeRef, FALSE, InitialSize)
  /\ card = NoCard
  /\ clicked = FALSE
  /\ clickedIdx = Null
  /\ frames = 0
  /\ activePin = Null
  /\ globeStateRef = NoGlobeRef
  /\ gwpDom = GwpRenderPins(NoGlobeRef, NoWrapper)
  /\ gwpCard = NoCard
  /\ dataKey = 0
  /\ probe = NoProbe

\* one rendered frame
RotFrame ==
  /\ frames < MaxRotFrames
  /\ phi' = onRender(targetPhi, phi)
  /\ globeRef' = [set |-> TRUE, phi |-> phi']
  /\ frames' = frames + 1
  /\ lastAct' = "Frame"
  /\ UNCHANGED <<comp, phase, now, glVars, size, activeIndex, running,
                 loopsDone, targetPhi, seqVars, dom, card, clicked,
                 clickedIdx,
                 gwpVars, dataKey, probe>>

NextRot == RotFrame

SpecRot == InitRot /\ [][NextRot]_vars

\* the renderer keeps drawing frames
SpecRotLive == SpecRot /\ WF_vars(RotFrame)

----------------------------------------------------------------------------
(* The projections on their own: latLngToScreen applied to a rotation and  *)
(* to the point facing the viewer or opposite to it                        *)

\* rotations the projection is applied at
ProbePhis == {k * ProbeStep : k \in -5 .. (TwoPi \div ProbeStep)} \cup {PhiInit}

ProbeSize == [w |-> 780, h |-> 780]

InitProj ==
  /\ comp \in {"HomepageAnimation", "GlobeWithPins"}
  /\ phase = "mounted"
  /\ lastAct = "Init"
  /\ now = 0
  /\ live = {1}
  /\ created = 1
  /\ peak = 1
  /\ glSize = 2 * ProbeSize.w
  /\ size = ProbeSize
  /\ activeIndex = Null
  /\ running = FALSE
  /\ loopsDone = 0
  /\ targetPhi = JSNull
  /\ phi \in {Fin(p) : p \in ProbePhis}
  /\ globeRef = [set |-> TRUE, phi |-> phi]
  /\ pc = "done"
  /\ idx = 0
  /\ localLoop = 0
  /\ mounted = TRUE
  /\ capturedRunning = TRUE
  /\ timer = NoTimer
  /\ dom = RenderPins(NoGlobeRef, FALSE, InitialSize)
  /\ card = NoCard
  /\ clicked = FALSE
  /\ clickedIdx = Null
  /\ frames = 0
  /\ activePin = Null
  /\ globeStateRef = [set |-> TRUE, phi |-> phi]
  /\ gwpDom = GwpRenderPins(NoGlobeRef, NoWrapper)
  /\ gwpCard = NoCard
  /\ dataKey = 0
  /\ probe = NoProbe

ProbeOf(op, lat, lng, pos) ==
  [op |-> op, phi |-> phi.v, lat |-> lat, lng |-> lng,
   x |-> pos.x, y |-> pos.y, visible |-> pos.visible]

\* the projection of (lat, lng) by the mounted component's latLngToScreen
Project(op, lat, lng) ==
  /\ probe' = IF IsHome
              THEN ProbeOf(op, lat, lng,
                           latLngToScreen(globeRef, TRUE, size, lat, lng))
              ELSE ProbeOf(op, lat, lng,
                           gwpLatLngToScreen(globeStateRef, WrapperLayout,
                                             lat, lng))
  /\ lastAct' = "Project"
  /\ UNCHANGED <<comp, phase, now, glVars, homeVars, phi, seqVars, frames,
                 gwpVars, dataKey>>

\* the point at the rotation-facing centre: lat = 0, lng = -phi in degrees
ProjectFacing == Project("facing", 0, RadToDeg(-phi.v))

\* the point opposite the viewer: lat = 0, lng = -phi in degrees + 180
ProjectOpposite == Project("opposite", 0, RadToDeg(-phi.v) + 180 * DegScale)

NextProj == ProjectFacing \/ ProjectOpposite

SpecProj == InitProj /\ [][NextProj]_vars

----------------------------------------------------------------------------
(* Claims *)

SequenceSteps == {"TimerFire", "ResumeShow", "ResumeFade"}

\* C1: once a marker has been clicked, no step of the automatic sequence
\* (a timer expiring, run() resuming) changes the active card index or the
\* rotation target.
C1_NoAdvanceAfterClick ==
  [][(clicked /\ lastAct' \in SequenceSteps)
       => (activeIndex' = activeIndex /\ targetPhi' = targetPhi)]_vars

\* C2: right after the click on the marker of point i, whatever the sequence
\* was doing, the active card index is i, the rotation target is
\* -radians(longitude of i) (to the rounding of the arithmetic) and running
\* is false.
C2_ClickSetsCardTargetAndStops ==
  (IsHome /\ lastAct = "Click") =>
     /\ activeIndex = clickedIdx
     /\ targetPhi.k = "fin"
     /\ Abs(targetPhi.v * 180 * DegScale + player(clickedIdx).lng * PI)
          <= 90 * DegScale
     /\ running = FALSE

\* C2 witness: the marker of the last point was clicked during a gap of the
\* running sequence, while the sequence pointed at another card
C2_Witness ==
  /\ IsHome /\ lastAct = "Click" /\ clickedIdx = 2
  /\ pc = "await_fade" /\ idx = 0 /\ activeIndex = 2 /\ ~running

\* C3: untouched, the sequence shows cards 0, 1, 2 in that order, each for
\* 1400 ms followed by 300 ms without a card, and from 3 * (1400 + 300) ms on
\* it is stopped: running is false, no card is active, nothing is pending.
C3_SequenceTimeline ==
  (IsHome /\ phase = "mounted") =>
     /\ now = 0 => activeIndex = 0 /\ running
     /\ \A k \in 0 .. 2 :
          /\ (k * 1700 < now /\ now < k * 1700 + 1400)
               => (activeIndex = k /\ running)
          /\ (now = k * 1700 + 1400) => activeIndex \in {k, Null}
          /\ (k * 1700 + 1400 < now /\ now < (k + 1) * 1700)
               => (activeIndex = Null /\ running)
          /\ (k < 2 /\ now = (k + 1) * 1700) => activeIndex \in {Null, k + 1}
     /\ (now >= 5100 /\ pc = "done")
          => (~running /\ activeIndex = Null /\ ~timer.armed)
     /\ now > 5100 => pc = "done"
     /\ pc = "done" => now >= 5100

\* C3 witness: the sequence has ended and time went on
C3_Witness ==
  /\ IsHome /\ phase = "mounted" /\ now > 5100 /\ pc = "done"
  /\ loopsDone = 1 /\ ~running /\ activeIndex = Null

\* C4: after the teardown, the active index, the running flag, the loop
\* counter and the rotation target are never written again.
C4_NoWriteAfterTeardown ==
  [][phase = "unmounted"
       => UNCHANGED <<activeIndex, running, loopsDone, targetPhi>>]_vars

\* C4 witness: the teardown came between a timer firing and the
\* continuation of run(), and the continuation has run
C4_Witness ==
  /\ IsHome /\ phase = "unmounted" /\ lastAct = "ResumeShow" /\ pc = "done"

\* C5: with a finite target T, a frame takes phi to phi + (T - phi) * 0.06
\* (to the rounding of the arithmetic), never past T and never farther from
\* T, and frame after frame phi comes within Epsilon of T.
C5_SeekConvergesWithoutOvershoot ==
  /\ [][(lastAct' = "Frame" /\ frames' # frames
           /\ IsFinite(targetPhi) /\ IsFinite(phi))
          => /\ IsFinite(phi')
             /\ Abs(100 * (phi'.v - phi.v) - 6 * (targetPhi.v - phi.v)) <= 50
             /\ (targetPhi.v >= phi.v => targetPhi.v >= phi'.v)
             /\ (targetPhi.v <= phi.v => targetPhi.v <= phi'.v)
             /\ Abs(targetPhi.v - phi'.v) <= Abs(targetPhi.v - phi.v)]_vars
  /\ (IsFinite(targetPhi) /\ IsFinite(phi))
       ~> (IsFinite(phi) /\ Abs(targetPhi.v - phi.v) <= Epsilon)

\* C5 witness: a rotation that started a turn or more from its target has
\* arrived within Epsilon of it
C5_Witness ==
  /\ lastAct = "Frame" /\ targetPhi = Fin(TwoPi) /\ frames > 100
  /\ IsFinite(phi) /\ phi.v < TwoPi /\ TwoPi - phi.v <= Epsilon

\* C6: the point at lat = 0, lng = -phi in degrees projects to visible = true
\* at every rotation phi.
C6_FacingPointVisible ==
  probe.op = "facing" => probe.visible

\* C7: the point at lat = 0, lng = -phi in degrees + 180 projects to
\* visible = false at every rotation phi.
C7_OppositePointHidden ==
  probe.op = "opposite" => ~probe.visible

\* C8: a target that is a number but not finite is ignored by the frame
\* update: phi stays finite in every frame.
C8_NonFiniteTargetIgnored ==
  (TypeofNumber(targetPhi) /\ ~IsFinite(targetPhi)) => IsFinite(phi)

MarkerInertWhenHidden(m) ==
  /\ ~m.projected => (m.pointerEvents = "none" /\ m.opacity < 100)
  /\ m.pointerEvents = "auto" => m.projected

C10_OneRendererNoLeak ==
  /\ Cardinality(live) <= 1
  /\ peak <= 1
  /\ phase \in {"init", "unmounted"} => live = {}
  /\ phase = "mounted" => live = {created}

\* C10 witness: World was unmounted after its renderer had been replaced
C10_Witness ==
  /\ comp = "World" /\ phase = "unmounted" /\ created >= 2 /\ live = {}

\* C11: a card rendered while its marker is not visible is anchored at the
\* fixed top-centre position: its left is the centre of the wrapper's width
\* and its top is the default (36 px in HomepageAnimation, 28 px in
\* GlobeWithPins), whatever the marker's projected x is.
C11_HiddenMarkerCardAtTopCentre ==
  /\ (IsHome /\ card.shown /\ ~card.markerVisible)
       => /\ card.left = (size.w * PxScale) \div 2
          /\ card.top = 36 * PxScale
  /\ (comp = "GlobeWithPins" /\ gwpCard.shown /\ ~gwpCard.markerVisible)
       => /\ gwpCard.left = (WrapperLayout.offsetWidth * PxScale) \div 2
          /\ gwpCard.top = 28 * PxScale

\* C12: in HomepageAnimation, right after rendered frames have changed the
\* rotation, every marker is displayed where latLngToScreen puts it at the
\* current phi.
C12_MarkersFollowRotation ==
  (IsHome /\ phase = "mounted" /\ lastAct = "Frame")
     => dom = RenderPins(globeRef, TRUE, size)

\* C13: once the sequence has stopped at the loop limit and no marker has
\* been clicked, rendered frames leave phi as it is.
C13_RotationHeldAfterLoopLimit ==
  [][(IsHome /\ phase = "mounted" /\ pc = "done" /\ loopsDone >= LOOPS
        /\ ~running /\ ~clicked /\ lastAct' = "Frame")
       => phi' = phi]_vars

\* C14: in GlobeWithPins, once a frame has been rendered the host holds
\* World's rotation state, and with a pin active every rendered frame takes
\* World's phi closer to -radians(lng of the pin).
C14_PinClickSteersWorld ==
  /\ []((comp = "GlobeWithPins" /\ phase = "mounted" /\ frames > 0)
          => globeStateRef.set)
  /\ [][(comp = "GlobeWithPins" /\ activePin # Null
           /\ lastAct' = "WorldFrame")
          => Abs(-DegToRad(pin(activePin).lng) - phi'.v)
               < Abs(-DegToRad(pin(activePin).lng) - phi.v)]_vars

\* C15: in HomepageAnimation a viewport resize, a marker click, a card
\* dismissal and a step of the sequence (a timer expiring, run() resuming)
\* leave phi unchanged.
C15_PhiChangesOnlyInFrames ==
  [][(IsHome /\ lastAct' \in {"Resize", "Click", "Dismiss", "TimerFire",
                              "ResumeShow", "ResumeFade"})
       => phi' = phi]_vars

====
